---- MODULE Spec2Model ----
(***************************************************************************)
(* Model of lib/report/util.js of ncm-cli: the report renderer.            *)
(*                                                                         *)
(* Text is a sequence of one-character strings.  An ANSI escape sequence   *)
(* written by chalk is the four elements ESC, "[", <colour>, "m": its      *)
(* parameter bytes are kept as one element, its first two code units are   *)
(* exact.  Fixed phrases of the summary lines and of the JSON file, which  *)
(* no operation indexes or measures, are kept as one element each.         *)
(* JavaScript indexes from 0, TLA+ from 1: W[k] of the source is W[k+1].   *)
(***************************************************************************)
EXTENDS Integers, Sequences, FiniteSets, TLC

VARIABLES
  report,      \* the array handed to the operation (moduleSort sorts it in place)
  color,       \* whether chalk emits ANSI colour codes (its detected level > 0)
  pc,          \* "ready", "awaiting" (outputReport suspended at its await), "done"
  out,         \* the lines written through L = console.log, in order
  rows,        \* per forEach iteration of moduleList: the callback's locals
  thrown,      \* "none", or the exception that left the operation
  netSecurity, \* shortVulnerabilityList's accumulator and headline choice
  dir,         \* outputReport's dir argument: <<"undefined">> or <<"string", text>>
  cyclic,      \* whether the report holds something JSON.stringify throws on
  clock,       \* what new Date().valueOf() returns
  reportFile,  \* outputReport's local reportFile once computed
  files,       \* the file system: the set of [path, data] written
  errors,      \* the codes passed to handleError, in order
  writePromise, \* the promise of fsPromises.writeFile: "none", "pending", "fulfilled", "rejected"
  promise      \* the promise outputReport returned: "none", "pending", "resolved", "rejected"

vars == <<report, color, pc, out, rows, thrown, netSecurity, dir, cyclic, clock,
          reportFile, files, errors, writePromise, promise>>

(***************************************************************************)
(* Bounds of the model.                                                    *)
(***************************************************************************)
MaxSortReport == 3
MaxNameLen == 30
MaxVersionLen == 12
MaxFailures == 3
MaxTableReport == 2
MaxTableFailures == 2
MaxVulnReport == 2
MaxVulnFailures == 3
MaxOutReport == 1
MaxClock == 2

(***************************************************************************)
(* Program constants.                                                      *)
(***************************************************************************)
SEVERITY_RMAP == <<"NONE", "LOW", "MEDIUM", "HIGH", "CRITICAL">>

W == <<40, 12, 23, 15>>

SEVERITY_COLOR ==
  [s \in {"CRITICAL", "HIGH", "MEDIUM", "LOW", "NONE"} |->
     CASE s = "CRITICAL" -> "red"
       [] s = "HIGH" -> "orange"
       [] s = "MEDIUM" -> "yellow"
       [] s = "LOW" -> "light1"
       [] s = "NONE" -> "base"]

(***************************************************************************)
(* JavaScript strings.                                                     *)
(***************************************************************************)
Min(a, b) == IF a < b THEN a ELSE b

\* The UTF-16 code unit of the characters the inputs are drawn from.
CodeUnit(c) ==
  CASE c = " " -> 32
    [] c = "." -> 46
    [] c = "0" -> 48
    [] c = "1" -> 49
    [] c = ":" -> 58
    [] c = "@" -> 64
    [] c = "a" -> 97
    [] c = "b" -> 98
    [] c = "v" -> 118

\* a < b on two strings: lexicographic on code units, a proper prefix first.
RECURSIVE StrLess(_, _)
StrLess(a, b) ==
  IF b = <<>> THEN FALSE
  ELSE IF a = <<>> THEN TRUE
  ELSE IF CodeUnit(Head(a)) < CodeUnit(Head(b)) THEN TRUE
  ELSE IF CodeUnit(Head(b)) < CodeUnit(Head(a)) THEN FALSE
  ELSE StrLess(Tail(a), Tail(b))

(***************************************************************************)
(* moduleSort                                                              *)
(***************************************************************************)
\* The comparator with its tiebreak on the name left out.
ComparatorNoTiebreak(a, b) ==
  IF a.maxSeverity > b.maxSeverity THEN <<-1>>
  ELSE IF b.maxSeverity > a.maxSeverity THEN <<1>>
  ELSE <<>>

\* The comparator's result: <<-1>>, <<1>>, or <<>> when it falls off its end
\* and returns undefined.
Comparator(a, b) ==
  IF a.maxSeverity > b.maxSeverity THEN <<-1>>
  ELSE IF b.maxSeverity > a.maxSeverity THEN <<1>>
  ELSE IF a.maxSeverity = b.maxSeverity
    THEN IF StrLess(a.name, b.name) THEN <<-1>>
         ELSE IF StrLess(b.name, a.name) THEN <<1>>
         ELSE <<>>
  ELSE <<>>

\* Array.prototype.sort's SortCompare: ToNumber(undefined) is NaN, taken as +0.
SortCompare(a, b) ==
  LET v == Comparator(a, b) IN IF v = <<>> THEN 0 ELSE v[1]

\* Insert x into the sorted prefix s, after every element not greater than it.
RECURSIVE InsertSorted(_, _)
InsertSorted(s, x) ==
  IF s = <<>> THEN <<x>>
  ELSE IF SortCompare(s[Len(s)], x) > 0
    THEN Append(InsertSorted(SubSeq(s, 1, Len(s) - 1), x), s[Len(s)])
    ELSE Append(s, x)

\* Array.prototype.sort with the comparator: a stable insertion sort, which is
\* what the engine runs on arrays this short.
RECURSIVE ArraySort(_)
ArraySort(s) ==
  IF s = <<>> THEN <<>>
  ELSE InsertSorted(ArraySort(SubSeq(s, 1, Len(s) - 1)), s[Len(s)])

moduleSort(r) == ArraySort(r)

(***************************************************************************)
(* The records of a report.                                                *)
(***************************************************************************)
MkPkg(name, version, published, title, pass, failures, maxSeverity) ==
  [name |-> name, version |-> version, published |-> published,
   license |-> [title |-> title, pass |-> pass],
   failures |-> failures, maxSeverity |-> maxSeverity]

\* indexOf on SEVERITY_RMAP (0-based).
SeverityIndex(severity) ==
  CHOOSE i \in 0..(Len(SEVERITY_RMAP) - 1) : SEVERITY_RMAP[i + 1] = severity

Mit == <<"a">>

\* All sequences over S of length at most n.
SeqUpTo(S, n) == UNION {[1..k -> S] : k \in 0..n}

(***************************************************************************)
(* Text.                                                                   *)
(***************************************************************************)
\* The characters of the source that are not ASCII, by code point.
Esc == "U+001B"
CheckMark == "U+2713"
Ellipsis == "U+2026"
BoxV == "U+2502"
BoxH == "U+2500"
BoxDownRight == "U+250C"
BoxDownLeft == "U+2510"
BoxUpRight == "U+2514"
BoxUpLeft == "U+2518"
BoxDownH == "U+252C"
BoxUpH == "U+2534"
BoxVRight == "U+251C"
BoxVLeft == "U+2524"
BoxCross == "U+253C"

\* String.prototype.repeat for a count >= 0 (a negative count throws RangeError:
\* the callers test the count first).
Repeat(c, n) == [i \in 1..n |-> c]

\* String.prototype.slice(from, to) for 0 <= from <= to.
Slice(s, from, to) == SubSeq(s, from + 1, Min(to, Len(s)))

\* s[i] on a string: the code unit at 0-based i, or undefined, which +
\* concatenates as the text "undefined".
CharAt(s, i) == IF i < Len(s) THEN <<s[i + 1]>> ELSE <<"u", "n", "d", "e", "f", "i", "n", "e", "d">>

Digits == <<"0", "1", "2", "3", "4", "5", "6", "7", "8", "9">>

\* A non-negative integer in a template literal: its decimal digits.
RECURSIVE ToStr(_)
ToStr(n) ==
  IF n < 10 THEN <<Digits[n + 1]>>
  ELSE ToStr(n \div 10) \o <<Digits[(n % 10) + 1]>>

\* Array.prototype.join('') on an array of strings.
RECURSIVE Join(_)
Join(a) == IF a = <<>> THEN <<>> ELSE Head(a) \o Join(Tail(a))

\* chalk`{c text}`: the text between the colour's open and close codes when
\* colours are on and the text is not empty, else the text as it is.
Chalk(c, text) ==
  IF ~color \/ text = <<>> THEN text
  ELSE <<Esc, "[", c, "m">> \o text \o <<Esc, "[", "39", "m">>

\* What a terminal shows of a text: its escape sequences ESC [ .. m removed.
Visible(s) ==
  LET starts == {i \in 1..(Len(s) - 3) :
                   s[i] = Esc /\ s[i + 1] = "[" /\ s[i + 3] = "m"}
      hidden == {i + k : i \in starts, k \in 0..3}
      kept == SelectSeq([i \in 1..Len(s) |-> i], LAMBDA i : i \notin hidden)
  IN [n \in 1..Len(kept) |-> s[kept[n]]]

\* String.prototype.toUpperCase on the severity names.
ToUpperCase(severity) ==
  CASE severity \in {"none", "None"} -> "NONE"
    [] severity \in {"low", "Low"} -> "LOW"
    [] severity \in {"medium", "Medium"} -> "MEDIUM"
    [] severity \in {"high", "High"} -> "HIGH"
    [] severity \in {"critical", "Critical"} -> "CRITICAL"
    [] OTHER -> severity

(***************************************************************************)
(* severityMeter, severityTextLabel                                        *)
(***************************************************************************)
severityMeter(severity) ==
  LET risk == SeverityIndex(severity)
  IN Join(<<Chalk(SEVERITY_COLOR[severity], Repeat("|", risk)),
            Chalk("base", Repeat("|", 4 - risk))>>)

severityTextLabel(sev) ==
  LET severity == ToUpperCase(sev)
      severityLabel ==
        CASE severity = "CRITICAL" -> <<"C", "r", "i", "t">>
          [] severity = "HIGH" -> <<"H", "i", "g", "h">>
          [] severity = "MEDIUM" -> <<"M", "e", "d", " ">>
          [] severity = "LOW" -> <<"L", "o", "w", " ">>
          [] severity = "NONE" -> <<"N", "o", "n", "e">>
      c == IF severity = "NONE" THEN "base" ELSE "light1"
  IN Chalk(c, severityLabel)

(***************************************************************************)
(* moduleList                                                              *)
(***************************************************************************)
\* The Module Name text: name @ version, the name cut when that is too long.
ModuleLabel(pkg) ==
  LET mod == pkg.name \o <<" ", "@", " ">> \o pkg.version
  IN IF Len(mod) > W[1]
       THEN Slice(pkg.name, 0, W[1] - 14) \o <<".", ".", ".", " ", "@", " ">> \o pkg.version
       ELSE mod

\* title.split(':'), its last chunk.
RECURSIVE LastChunk(_)
LastChunk(s) ==
  IF \E i \in 1..Len(s) : s[i] = ":"
    THEN LastChunk(SubSeq(s, (CHOOSE i \in 1..Len(s) :
                                 s[i] = ":" /\ \A j \in 1..(i - 1) : s[j] # ":") + 1,
                          Len(s)))
    ELSE s

\* String.prototype.trim, on texts whose only white space is the space.
RECURSIVE Trim(_)
Trim(s) ==
  IF s = <<>> THEN s
  ELSE IF Head(s) = " " THEN Trim(Tail(s))
  ELSE IF s[Len(s)] = " " THEN Trim(SubSeq(s, 1, Len(s) - 1))
  ELSE s

\* The license text of the License cell, cut to fit the column.
LicenseText(pkg) ==
  LET license == Trim(LastChunk(pkg.license.title))
  IN IF Len(license) + 3 > W[3]
       THEN Slice(license, 0, W[3] - 4) \o <<Ellipsis>>
       ELSE license

LicenseBadge(pkg) ==
  IF pkg.license.pass THEN Chalk("green", <<CheckMark>>) ELSE Chalk("red", <<"X">>)

\* The loop over pkg.failures without its test of the group.
RECURSIVE VulnsAnyGroup(_, _)
VulnsAnyGroup(failures, n) ==
  IF n = 0 THEN <<0, 0, 0, 0>>
  ELSE LET v == VulnsAnyGroup(failures, n - 1)
           f == failures[n]
       IN <<IF f.severity = "LOW" THEN v[1] + 1 ELSE v[1],
            IF f.severity = "MEDIUM" THEN v[2] + 1 ELSE v[2],
            IF f.severity = "HIGH" THEN v[3] + 1 ELSE v[3],
            IF f.severity = "CRITICAL" THEN v[4] + 1 ELSE v[4]>>

\* The loop over pkg.failures: vulns after its first n iterations.  vulns[0]
\* (LOW) .. vulns[3] (CRITICAL) of the source are elements 1 .. 4.
RECURSIVE Vulns(_, _)
Vulns(failures, n) ==
  IF n = 0 THEN <<0, 0, 0, 0>>
  ELSE LET v == Vulns(failures, n - 1)
           f == failures[n]
       IN IF f.group = "security"
            THEN <<IF f.severity = "LOW" THEN v[1] + 1 ELSE v[1],
                   IF f.severity = "MEDIUM" THEN v[2] + 1 ELSE v[2],
                   IF f.severity = "HIGH" THEN v[3] + 1 ELSE v[3],
                   IF f.severity = "CRITICAL" THEN v[4] + 1 ELSE v[4]>>
            ELSE v

SecurityBadges(vulns) ==
  <<IF vulns[1] + vulns[2] + vulns[3] + vulns[4] = 0
      THEN Chalk("green", <<CheckMark>>) \o <<" ", "0">>
      ELSE Chalk("red", <<"X">>) \o <<" ">>,
    IF vulns[4] > 0 THEN Chalk("red", ToStr(vulns[4]) \o <<"C">>) \o <<" ">> ELSE <<>>,
    IF vulns[3] > 0 THEN Chalk("orange", ToStr(vulns[3]) \o <<"H">>) \o <<" ">> ELSE <<>>,
    IF vulns[2] > 0 THEN Chalk("yellow", ToStr(vulns[2]) \o <<"M">>) \o <<" ">> ELSE <<>>,
    IF vulns[1] > 0 THEN Chalk("light1", ToStr(vulns[1]) \o <<"L">>) \o <<" ">> ELSE <<>>>>

\* The risk meter as the source takes it: the code units 0 and 1 of the string
\* severityMeter returns.
RiskMeter(pkg) ==
  LET severity == ToUpperCase(SEVERITY_RMAP[pkg.maxSeverity + 1])
  IN CharAt(severityMeter(severity), 0) \o CharAt(severityMeter(severity), 1)

RiskLabel(pkg) == severityTextLabel(ToUpperCase(SEVERITY_RMAP[pkg.maxSeverity + 1]))

\* The number of non-empty strings of securityBadges.
NonEmpty(a) == Cardinality({i \in 1..Len(a) : a[i] # <<>>})

Bar == Chalk("light1", <<BoxV>>)

\* One call of the forEach callback up to its L(...): its locals, the repeat
\* counts of its row, and the row, or the RangeError of a negative count.
RowLocals(pkg) ==
  LET mod == ModuleLabel(pkg)
      modPad == W[1] - Len(mod)
      license == IF pkg.published THEN LicenseText(pkg) ELSE <<>>
      licenseBadge == IF pkg.published THEN LicenseBadge(pkg) ELSE <<>>
      vulns == IF pkg.published THEN Vulns(pkg.failures, Len(pkg.failures))
               ELSE <<0, 0, 0, 0>>
      securityBadges == IF pkg.published THEN SecurityBadges(vulns) ELSE <<>>
      riskMeter == IF pkg.published THEN RiskMeter(pkg) ELSE <<>>
      riskLabel == IF pkg.published THEN RiskLabel(pkg) ELSE <<>>
      riskBadge == riskMeter \o riskLabel
      licensePad == W[3] - Len(license) - 3
      securityPad == W[4] - 2 - NonEmpty(securityBadges) * 2
      counts == IF pkg.published
                  THEN {modPad, W[2] - 10, licensePad, securityPad}
                  ELSE {modPad, W[2] - 1, W[3], W[4]}
      label == Bar \o <<" ">> \o mod \o <<" ">> \o Repeat(" ", modPad)
                 \o Bar \o <<" ">>
      line ==
        IF pkg.published
          THEN label
                 \o riskBadge \o Repeat(" ", W[2] - 10) \o Bar \o <<" ">>
                 \o licenseBadge \o <<" ">> \o license
                 \o Repeat(" ", licensePad) \o Bar \o <<" ">>
                 \o Join(securityBadges) \o Repeat(" ", securityPad) \o Bar
          ELSE label
                 \o Repeat(" ", W[2] - 1) \o Bar
                 \o Repeat(" ", W[3]) \o Bar
                 \o Repeat(" ", W[4]) \o Bar
      ok == \A c \in counts : c >= 0
  IN [pkg |-> pkg, mod |-> mod, modPad |-> modPad,
      riskMeter |-> riskMeter, riskLabel |-> riskLabel,
      license |-> license, vulns |-> vulns,
      securityBadges |-> securityBadges, securityPad |-> securityPad,
      thrown |-> IF ok THEN "none" ELSE "RangeError",
      line |-> IF ok THEN line ELSE <<>>]

HeaderLine ==
  Chalk("light1",
        <<" ", " ", "M", "o", "d", "u", "l", "e", " ", "N", "a", "m", "e">> \o Repeat(" ", W[1] - 9)
          \o <<"R", "i", "s", "k">> \o Repeat(" ", W[2] - 3)
          \o <<"L", "i", "c", "e", "n", "s", "e">> \o Repeat(" ", W[3] - 6)
          \o <<"S", "e", "c", "u", "r", "i", "t", "y">>)

\* A border line: its left end (three characters), joint and right end.
Border(left, joint, right) ==
  Chalk("light1",
        left \o Repeat(BoxH, W[1]) \o <<joint>> \o Repeat(BoxH, W[2]) \o <<joint>>
          \o Repeat(BoxH, W[3]) \o <<joint>> \o Repeat(BoxH, W[4]) \o <<right>>)

TopBorder == Border(<<BoxDownRight, BoxH, BoxH>>, BoxDownH, BoxDownLeft)
BottomBorder == Border(<<BoxUpRight, BoxH, BoxH>>, BoxUpH, BoxUpLeft)
Divider == Border(<<BoxVRight, BoxH, BoxH>>, BoxCross, BoxVLeft)

\* The lines written and the locals kept after the first n calls of the
\* forEach callback on the sorted report r; an exception ends the loop.
RECURSIVE ForEachRow(_, _, _)
ForEachRow(r, dividers, n) ==
  IF n = 0 THEN [out |-> <<HeaderLine, TopBorder>>, rows |-> <<>>, thrown |-> "none"]
  ELSE LET prev == ForEachRow(r, dividers, n - 1)
           ind == n - 1
           loc == RowLocals(r[n])
           cell == IF ind = Len(r) - 1 THEN <<BottomBorder>>
                   ELSE IF dividers THEN <<Divider>>
                   ELSE <<>>
       IN IF prev.thrown # "none" THEN prev
          ELSE IF loc.thrown # "none"
            THEN [out |-> prev.out, rows |-> Append(prev.rows, loc),
                  thrown |-> loc.thrown]
            ELSE [out |-> prev.out \o <<loc.line>> \o cell,
                  rows |-> Append(prev.rows, loc), thrown |-> "none"]

ModuleList(dividers) ==
  /\ pc = "ready"
  /\ LET sorted == moduleSort(report)
         run == ForEachRow(sorted, dividers, Len(sorted))
     IN /\ report' = sorted
        /\ out' = run.out
        /\ rows' = run.rows
        /\ thrown' = run.thrown
  /\ pc' = "done"
  /\ UNCHANGED <<color, netSecurity, dir, cyclic, clock, reportFile, files,
                 errors, writePromise, promise>>

NextList == \E dividers \in BOOLEAN : ModuleList(dividers)

(***************************************************************************)
(* moduleSort called on its own.                                           *)
(***************************************************************************)
SortNames == {<<>>, <<"a">>, <<"a", "b">>, <<"b">>}

\* maxSeverity is the worst severity among the record's failures.
SortPackages ==
  {MkPkg(n, <<"1">>, TRUE, Mit, TRUE,
         IF s = 0 THEN <<>>
         ELSE <<[group |-> "security", severity |-> SEVERITY_RMAP[s + 1]]>>, s) :
     n \in SortNames, s \in 0..(Len(SEVERITY_RMAP) - 1)}

Idle ==
  /\ out = <<>>
  /\ rows = <<>>
  /\ thrown = "none"
  /\ netSecurity = <<>>
  /\ dir = <<"undefined">>
  /\ cyclic = FALSE
  /\ clock = 0
  /\ reportFile = <<>>
  /\ files = {}
  /\ errors = <<>>
  /\ writePromise = "none"
  /\ promise = "none"

InitSort ==
  /\ report \in SeqUpTo(SortPackages, MaxSortReport)
  /\ color = FALSE
  /\ pc = "ready"
  /\ Idle

ModuleSort ==
  /\ pc = "ready"
  /\ report' = moduleSort(report)
  /\ pc' = "done"
  /\ UNCHANGED <<color, out, rows, thrown, netSecurity, dir, cyclic, clock,
                 reportFile, files, errors, writePromise, promise>>

NextSort == ModuleSort

SpecSort == InitSort /\ [][NextSort]_vars

\* C1: after moduleSort every adjacent pair of the report is in order:
\* maxSeverity descending and, for equal maxSeverity, name ascending
\* (lexicographic); also for records equal in both, where the comparator
\* returns undefined.
C1_Sorted ==
  pc = "done" =>
    \A i \in 1..(Len(report) - 1) :
      /\ report[i].maxSeverity >= report[i + 1].maxSeverity
      /\ report[i].maxSeverity = report[i + 1].maxSeverity
           => ~StrLess(report[i + 1].name, report[i].name)

\* A sorted report of three records in which two records equal in maxSeverity
\* and name (the comparator returned undefined) stand before a third, and the
\* tiebreak on the name decided a pair.
C1_Witness ==
  /\ pc = "done"
  /\ Len(report) = 3
  /\ report[1].maxSeverity = report[2].maxSeverity
  /\ report[1].name = report[2].name
  /\ report[2].maxSeverity = report[3].maxSeverity
  /\ StrLess(report[2].name, report[3].name)

(***************************************************************************)
(* moduleList on one package whose name and version lengths vary.          *)
(***************************************************************************)
LicenseTitles == {Mit, <<"b", ":", " ", "a">>}

InitTrunc ==
  /\ \E n \in 0..MaxNameLen, v \in 1..MaxVersionLen, published \in BOOLEAN,
        title \in LicenseTitles, pass \in BOOLEAN :
       report = <<MkPkg(Repeat("a", n), Repeat("1", v), published, title, pass,
                        <<>>, 0)>>
  /\ color \in BOOLEAN
  /\ pc = "ready"
  /\ Idle

SpecTrunc == InitTrunc /\ [][NextList]_vars

\* Whether text s holds text t at 1-based position i.
HoldsAt(s, t, i) == i + Len(t) - 1 <= Len(s) /\ SubSeq(s, i, i + Len(t) - 1) = t

Contains(s, t) == \E i \in 1..(Len(s) + 1) : HoldsAt(s, t, i)

EndsWith(s, t) == Len(t) <= Len(s) /\ HoldsAt(s, t, Len(s) - Len(t) + 1)

\* C2: a package whose "name @ version" is longer than the Module Name column
\* renders a Module Name text that holds an ellipsis, ends with the whole
\* version and is at most W[0] long, so the padding count is never negative
\* and the row is written.
C2_TruncatedFits ==
  pc = "done" =>
    \A i \in 1..Len(rows) :
      LET pkg == rows[i].pkg IN
      Len(pkg.name) + 3 + Len(pkg.version) > W[1] =>
        /\ Contains(rows[i].mod, <<".", ".", ".">>)
        /\ EndsWith(rows[i].mod, pkg.version)
        /\ Len(rows[i].mod) <= W[1]
        /\ rows[i].modPad >= 0
        /\ thrown = "none"

(***************************************************************************)
(* moduleList on one package whose failures vary.                          *)
(***************************************************************************)
FailureKinds ==
  [group : {"security", "license"},
   severity : {SEVERITY_RMAP[k] : k \in 1..Len(SEVERITY_RMAP)}]

\* maxSeverity as the analyzer sets it: the worst severity among the failures.
WorstSeverity(failures) ==
  IF failures = <<>> THEN 0
  ELSE CHOOSE m \in 0..(Len(SEVERITY_RMAP) - 1) :
         /\ \E i \in 1..Len(failures) : SeverityIndex(failures[i].severity) = m
         /\ \A i \in 1..Len(failures) : SeverityIndex(failures[i].severity) <= m

InitRow ==
  /\ \E failures \in SeqUpTo(FailureKinds, MaxFailures), published \in BOOLEAN :
       report = <<MkPkg(<<"a">>, <<"1">>, published, Mit, TRUE, failures,
                        WorstSeverity(failures))>>
  /\ color \in BOOLEAN
  /\ pc = "ready"
  /\ Idle

SpecRow == InitRow /\ [][NextList]_vars

\* The number of failures of a package with group 'security' and a severity.
SecurityCount(pkg, severity) ==
  Cardinality({i \in 1..Len(pkg.failures) :
                 pkg.failures[i].group = "security"
                 /\ pkg.failures[i].severity = severity})

\* The visible text of the Security cell of a written row: what stands between
\* its fourth and its fifth vertical bar.
SecurityCell(line) ==
  LET v == Visible(line)
      bars == {i \in 1..Len(v) : v[i] = BoxV}
      fourth == CHOOSE i \in bars : Cardinality({j \in bars : j < i}) = 3
      fifth == CHOOSE i \in bars : Cardinality({j \in bars : j < i}) = 4
  IN SubSeq(v, fourth + 1, fifth - 1)

\* The badge the Security cell is to show for a severity: none for a count of 0.
ExpectedBadge(pkg, severity, letter) ==
  IF SecurityCount(pkg, severity) > 0
    THEN ToStr(SecurityCount(pkg, severity)) \o <<letter, " ">>
    ELSE <<>>

ExpectedBadges(pkg) ==
  ExpectedBadge(pkg, "CRITICAL", "C") \o ExpectedBadge(pkg, "HIGH", "H")
    \o ExpectedBadge(pkg, "MEDIUM", "M") \o ExpectedBadge(pkg, "LOW", "L")

PublishedRows == {i \in 1..Len(rows) : rows[i].pkg.published /\ rows[i].thrown = "none"}

\* C6: the Risk Score cell of a published package of maxSeverity s shows a
\* meter of 4 slots, s of them filled in the severity's colour and 4 - s
\* neutral, and then the 4-character label of severity s.
C6_RiskMeter ==
  pc = "done" =>
    \A i \in PublishedRows :
      LET s == rows[i].pkg.maxSeverity
          severity == SEVERITY_RMAP[s + 1]
      IN /\ Visible(rows[i].riskMeter) = Repeat("|", 4)
         /\ rows[i].riskMeter =
              Chalk(SEVERITY_COLOR[severity], Repeat("|", s))
                \o Chalk("base", Repeat("|", 4 - s))
         /\ Len(Visible(rows[i].riskLabel)) = 4

\* C8: after the aggregate glyph the Security cell of a published package
\* lists one count+letter badge for each of CRITICAL, HIGH, MEDIUM, LOW whose
\* count of security-group failures is > 0, in that order, with that count,
\* none for a count of 0, and then only padding.
C8_Badges ==
  pc = "done" =>
    \A i \in PublishedRows :
      LET pkg == rows[i].pkg
          cell == SecurityCell(rows[i].line)
          glyph == Visible(rows[i].securityBadges[1])
          shown == <<" ">> \o glyph \o ExpectedBadges(pkg)
      IN /\ HoldsAt(cell, shown, 1)
         /\ \A k \in (Len(shown) + 1)..Len(cell) : cell[k] = " "
         /\ Visible(Join(Tail(rows[i].securityBadges))) = ExpectedBadges(pkg)

\* A published package with 2 HIGH and 1 LOW security failures and no other:
\* its row shows the badges 2H and 1L.
C8_Witness ==
  /\ pc = "done"
  /\ \E i \in PublishedRows :
       /\ SecurityCount(rows[i].pkg, "CRITICAL") = 0
       /\ SecurityCount(rows[i].pkg, "HIGH") = 2
       /\ SecurityCount(rows[i].pkg, "MEDIUM") = 0
       /\ SecurityCount(rows[i].pkg, "LOW") = 1
       /\ Contains(SecurityCell(rows[i].line), <<"2", "H", " ", "1", "L", " ">>)

\* C9: the aggregate glyph of the Security cell of a published package is the
\* passing form (check mark, then "0") exactly when the package has no failure
\* with group 'security', of any severity.
C9_Glyph ==
  pc = "done" =>
    \A i \in PublishedRows :
      (Visible(rows[i].securityBadges[1]) = <<CheckMark, " ", "0">>)
        <=> (\A k \in 1..Len(rows[i].pkg.failures) :
               rows[i].pkg.failures[k].group # "security")

(***************************************************************************)
(* moduleList on reports of several packages.                              *)
(***************************************************************************)
SecurityKinds == {f \in FailureKinds : f.group = "security"}

TablePackages ==
  {MkPkg(n, <<"1">>, published, Mit, TRUE, failures, WorstSeverity(failures)) :
     n \in {<<"a">>, <<"b">>}, published \in BOOLEAN,
     failures \in SeqUpTo(SecurityKinds, MaxTableFailures)}

InitTable ==
  /\ report \in SeqUpTo(TablePackages, MaxTableReport)
  /\ color = FALSE
  /\ pc = "ready"
  /\ Idle

SpecTable == InitTable /\ [][NextList]_vars

\* C3: moduleList on an empty report writes the header line, the top border
\* and the closing bottom border, and no data row.
C3_EmptyTable ==
  (pc = "done" /\ report = <<>>) => out = <<HeaderLine, TopBorder, BottomBorder>>

\* C7: the Security cells of all published rows have the same visible width:
\* the right border of every published row is at the same column.
C7_SecurityWidth ==
  pc = "done" =>
    \A i, j \in PublishedRows :
      Len(SecurityCell(rows[i].line)) = Len(SecurityCell(rows[j].line))

(***************************************************************************)
(* shortVulnerabilityList                                                  *)
(***************************************************************************)
\* netSecurity[severity]++ : the four counters count; any other key (NONE) is
\* created from undefined and holds NaN from then on.
Increment(net, severity) ==
  IF severity \in {"LOW", "MEDIUM", "HIGH", "CRITICAL"}
    THEN [net EXCEPT ![severity] = @ + 1]
    ELSE [net EXCEPT ![severity] = "NaN"]

\* The inner loop of shortVulnerabilityList without its test of the group.
RECURSIVE AfterFailuresAnyGroup(_, _, _)
AfterFailuresAnyGroup(net, pkg, n) ==
  IF n = 0 THEN net
  ELSE LET prev == AfterFailuresAnyGroup(net, pkg, n - 1)
           failure == pkg.failures[n]
       IN [Increment(prev, failure.severity) EXCEPT !.AFFECTED = @ \cup {pkg.name}]

\* The inner loop: netSecurity after the first n failures of pkg.
RECURSIVE AfterFailures(_, _, _)
AfterFailures(net, pkg, n) ==
  IF n = 0 THEN net
  ELSE LET prev == AfterFailures(net, pkg, n - 1)
           failure == pkg.failures[n]
       IN IF failure.group = "security"
            THEN [Increment(prev, failure.severity) EXCEPT
                    !.AFFECTED = @ \cup {pkg.name}]
            ELSE prev

\* The outer loop: netSecurity after the first n packages of the report.
RECURSIVE AfterPackages(_, _)
AfterPackages(r, n) ==
  IF n = 0
    THEN [LOW |-> 0, MEDIUM |-> 0, HIGH |-> 0, CRITICAL |-> 0, AFFECTED |-> {},
          NONE |-> "undefined"]
    ELSE AfterFailures(AfterPackages(r, n - 1), r[n], Len(r[n].failures))

\* The headline: the badge, the count and, when a module is affected, the
\* number of affected modules.
Headline(net) ==
  LET vulnerabilityCount == net.CRITICAL + net.HIGH + net.MEDIUM + net.LOW
      securityBadge == IF vulnerabilityCount > 0 THEN Chalk("red", <<"!">>)
                       ELSE Chalk("green", <<CheckMark>>)
  IN IF Cardinality(net.AFFECTED) > 0
       THEN <<" ", " ">> \o securityBadge \o <<" ">> \o ToStr(vulnerabilityCount)
              \o <<" ", "s", "e", "c", "u", "r", "i", "t", "y", " ", "v", "u", "l", "n", "e", "r", "a", "b", "i", "l", "i", "t", "i", "e", "s", " ", "f", "o", "u", "n", "d", " ", "a", "c", "r", "o", "s", "s", " ">>
              \o ToStr(Cardinality(net.AFFECTED)) \o <<" ", "m", "o", "d", "u", "l", "e", "s">>
       ELSE <<" ", " ">> \o securityBadge \o <<" ">> \o ToStr(vulnerabilityCount)
              \o <<" ", "s", "e", "c", "u", "r", "i", "t", "y", " ", "v", "u", "l", "n", "e", "r", "a", "b", "i", "l", "i", "t", "i", "e", "s", " ", "f", "o", "u", "n", "d">>

SeverityLine(c, letter, count, words) ==
  <<" ", " ", " ", " ">> \o Chalk(c, <<letter>>) \o <<" ">> \o ToStr(count) \o words

ShortVulnerabilityList ==
  /\ pc = "ready"
  /\ LET net == AfterPackages(report, Len(report))
     IN /\ netSecurity' = net
        /\ out' = <<Headline(net),
                    SeverityLine("red", "C", net.CRITICAL, <<" ", "c", "r", "i", "t", "i", "c", "a", "l", " ", "s", "e", "v", "e", "r", "i", "t", "y">>),
                    SeverityLine("orange", "H", net.HIGH, <<" ", "h", "i", "g", "h", " ", "s", "e", "v", "e", "r", "i", "t", "y">>),
                    SeverityLine("yellow", "M", net.MEDIUM, <<" ", "m", "e", "d", "i", "u", "m", " ", "s", "e", "v", "e", "r", "i", "t", "y">>),
                    SeverityLine("light1", "L", net.LOW, <<" ", "l", "o", "w", " ", "s", "e", "v", "e", "r", "i", "t", "y">>)>>
  /\ pc' = "done"
  /\ UNCHANGED <<report, color, rows, thrown, dir, cyclic, clock, reportFile,
                 files, errors, writePromise, promise>>

NextVuln == ShortVulnerabilityList

\* The failures the summary is run on: every severity in the security group,
\* and one failure of another group.
VulnKinds ==
  SecurityKinds \cup {[group |-> "license", severity |-> "HIGH"]}

\* Name and published flag of a package: two names, one of them also
\* unpublished.
VulnIdentities == {<<<<"a">>, TRUE>>, <<<<"b">>, TRUE>>, <<<<"b">>, FALSE>>}

VulnPkg(id, failures) ==
  MkPkg(id[1], <<"1">>, id[2], Mit, TRUE, failures, WorstSeverity(failures))

\* The scenario of the specification: P1 with 2 HIGH and 1 LOW security
\* failures, P2 with 1 CRITICAL.
ScenarioReport ==
  <<VulnPkg(<<<<"a">>, TRUE>>,
            <<[group |-> "security", severity |-> "HIGH"],
              [group |-> "security", severity |-> "LOW"],
              [group |-> "security", severity |-> "HIGH"]>>),
    VulnPkg(<<<<"b">>, TRUE>>,
            <<[group |-> "security", severity |-> "CRITICAL"]>>)>>

\* Reports of at most MaxVulnReport packages with at most MaxVulnFailures
\* failures between them, and the scenario.
InitVuln ==
  /\ \/ \E n \in 0..MaxVulnReport :
          \E ids \in [1..n -> VulnIdentities],
             lens \in [1..n -> 0..MaxVulnFailures] :
            /\ Cardinality({<<i, k>> \in (1..n) \X (1..MaxVulnFailures) :
                              k <= lens[i]}) <= MaxVulnFailures
            /\ \E fs \in [{<<i, k>> \in (1..n) \X (1..MaxVulnFailures) :
                              k <= lens[i]} -> VulnKinds] :
                 report = [i \in 1..n |->
                             VulnPkg(ids[i], [k \in 1..lens[i] |-> fs[<<i, k>>]])]
     \/ report = ScenarioReport
  /\ color = TRUE
  /\ pc = "ready"
  /\ Idle

SpecVuln == InitVuln /\ [][NextVuln]_vars

\* The number of security-group failures of a severity over the whole report.
RECURSIVE ReportCount(_, _, _)
ReportCount(r, n, severity) ==
  IF n = 0 THEN 0 ELSE ReportCount(r, n - 1, severity) + SecurityCount(r[n], severity)

\* The names of the packages with at least one security-group failure.
AffectedNames(r) ==
  {r[i].name : i \in {j \in 1..Len(r) :
                         \E k \in 1..Len(r[j].failures) :
                           r[j].failures[k].group = "security"}}

TotalCount(r) ==
  ReportCount(r, Len(r), "CRITICAL") + ReportCount(r, Len(r), "HIGH")
    + ReportCount(r, Len(r), "MEDIUM") + ReportCount(r, Len(r), "LOW")

\* C4: shortVulnerabilityList writes five lines: a headline with the total (the
\* sum of the four counts) and, when a package is affected, the number of
\* distinct package names with a security-group failure; then the counts of
\* CRITICAL, HIGH, MEDIUM and LOW security-group failures over all records,
\* published or not, in that order, also when a count is 0.
C4_Summary ==
  pc = "done" =>
    LET n == Len(report)
        affected == Cardinality(AffectedNames(report))
        head == Visible(out[1])
    IN /\ Len(out) = 5
       /\ netSecurity.CRITICAL = ReportCount(report, n, "CRITICAL")
       /\ netSecurity.HIGH = ReportCount(report, n, "HIGH")
       /\ netSecurity.MEDIUM = ReportCount(report, n, "MEDIUM")
       /\ netSecurity.LOW = ReportCount(report, n, "LOW")
       /\ Cardinality(netSecurity.AFFECTED) = affected
       /\ \E glyph \in {"!", CheckMark} :
            head = <<" ", " ", glyph, " ">> \o ToStr(TotalCount(report))
                     \o <<" ", "s", "e", "c", "u", "r", "i", "t", "y", " ", "v", "u", "l", "n", "e", "r", "a", "b", "i", "l", "i", "t", "i", "e", "s", " ", "f", "o", "u", "n", "d">>
                     \o (IF affected > 0
                           THEN <<" ", "a", "c", "r", "o", "s", "s", " ">> \o ToStr(affected) \o <<" ", "m", "o", "d", "u", "l", "e", "s">>
                           ELSE <<>>)
       /\ Visible(out[2]) = <<" ", " ", " ", " ", "C", " ">> \o ToStr(ReportCount(report, n, "CRITICAL"))
                              \o <<" ", "c", "r", "i", "t", "i", "c", "a", "l", " ", "s", "e", "v", "e", "r", "i", "t", "y">>
       /\ Visible(out[3]) = <<" ", " ", " ", " ", "H", " ">> \o ToStr(ReportCount(report, n, "HIGH"))
                              \o <<" ", "h", "i", "g", "h", " ", "s", "e", "v", "e", "r", "i", "t", "y">>
       /\ Visible(out[4]) = <<" ", " ", " ", " ", "M", " ">> \o ToStr(ReportCount(report, n, "MEDIUM"))
                              \o <<" ", "m", "e", "d", "i", "u", "m", " ", "s", "e", "v", "e", "r", "i", "t", "y">>
       /\ Visible(out[5]) = <<" ", " ", " ", " ", "L", " ">> \o ToStr(ReportCount(report, n, "LOW"))
                              \o <<" ", "l", "o", "w", " ", "s", "e", "v", "e", "r", "i", "t", "y">>

\* The scenario: total 4 across 2 modules, CRITICAL 1, HIGH 2, MEDIUM 0, LOW 1.
C4_Witness ==
  /\ pc = "done"
  /\ report = ScenarioReport
  /\ netSecurity.CRITICAL = 1
  /\ netSecurity.HIGH = 2
  /\ netSecurity.MEDIUM = 0
  /\ netSecurity.LOW = 1
  /\ Visible(out[1]) = <<" ", " ", "!", " ", "4">>
                         \o <<" ", "s", "e", "c", "u", "r", "i", "t", "y", " ", "v", "u", "l", "n", "e", "r", "a", "b", "i", "l", "i", "t", "i", "e", "s", " ", "f", "o", "u", "n", "d", " ", "a", "c", "r", "o", "s", "s", " ", "2", " ", "m", "o", "d", "u", "l", "e", "s">>

\* C10: the headline mentions a number of affected modules exactly when the
\* total it reports is greater than 0.
C10_Headline ==
  pc = "done" =>
    (Contains(Visible(out[1]), <<"a", "c", "r", "o", "s", "s">>)
       <=> netSecurity.CRITICAL + netSecurity.HIGH + netSecurity.MEDIUM
             + netSecurity.LOW > 0)

(***************************************************************************)
(* outputReport                                                            *)
(***************************************************************************)
\* process.cwd().
Cwd == <<"/", "w">>

\* path.join(d, f) of a directory and a file name.
PathJoin(d, f) ==
  IF d = <<>> THEN f
  ELSE IF d[Len(d)] = "/" THEN d \o f
  ELSE d \o <<"/">> \o f

Quoted(text) == <<"\"">> \o text \o <<"\"">>

JsonBoolean(b) == IF b THEN <<"true">> ELSE <<"false">>

\* JSON.stringify of an array of the elements' texts.
RECURSIVE JsonElements(_)
JsonElements(texts) ==
  IF texts = <<>> THEN <<>>
  ELSE IF Len(texts) = 1 THEN texts[1]
  ELSE texts[1] \o <<",">> \o JsonElements(Tail(texts))

JsonArray(texts) == <<"[">> \o JsonElements(texts) \o <<"]">>

JsonFailure(f) ==
  <<"{", "\"group\":">> \o Quoted(<<f.group>>)
    \o <<",", "\"severity\":">> \o Quoted(<<f.severity>>) \o <<"}">>

JsonPkg(pkg) ==
  <<"{", "\"name\":">> \o Quoted(pkg.name)
    \o <<",", "\"version\":">> \o Quoted(pkg.version)
    \o <<",", "\"published\":">> \o JsonBoolean(pkg.published)
    \o <<",", "\"license\":", "{", "\"title\":">> \o Quoted(pkg.license.title)
    \o <<",", "\"pass\":">> \o JsonBoolean(pkg.license.pass) \o <<"}">>
    \o <<",", "\"failures\":">>
    \o JsonArray([k \in 1..Len(pkg.failures) |-> JsonFailure(pkg.failures[k])])
    \o <<",", "\"maxSeverity\":">> \o ToStr(pkg.maxSeverity) \o <<"}">>

\* JSON.stringify(report) of a report it does not throw on.
JsonStringify(r) == JsonArray([i \in 1..Len(r) |-> JsonPkg(r[i])])

\* handleError of lib/util: reports the code and returns.
HandleError(errs, code) == Append(errs, code)

\* boxbox of lib/ncm-style: the icon and the text, in the colour, boxed.
Boxbox(icon, text, c) == Chalk(c, <<icon, " ">> \o text)

SuccessLine(file) ==
  Boxbox(CheckMark, <<"R", "e", "p", "o", "r", "t", " ", "s", "u", "c", "c", "e", "s", "s", "f", "u", "l", "l", "y", " ", "w", "r", "i", "t", "t", "e", "n", " ", "t", "o", ":", " ">> \o file, "green")

\* outputReport with the await before fsPromises.writeFile left out: it
\* goes on to its confirmation while the write is pending.
OutputReportCallNoAwait ==
  /\ pc = "ready"
  /\ LET d == IF dir[1] # "string" THEN Cwd ELSE dir[2]
         file == PathJoin(d, <<"n", "c", "m", "-", "s", "c", "o", "r", "e", "-", "r", "e", "p", "o", "r", "t", "-">> \o ToStr(clock) \o <<".", "j", "s", "o", "n">>)
     IN IF cyclic
          THEN /\ errors' = HandleError(errors, "Tools::UnableToFormatOutput")
               /\ promise' = "resolved"
               /\ pc' = "done"
               /\ UNCHANGED <<reportFile, writePromise, out>>
          ELSE /\ reportFile' = file
               /\ writePromise' = "pending"
               /\ out' = Append(out, SuccessLine(file))
               /\ promise' = "resolved"
               /\ pc' = "awaiting"
               /\ UNCHANGED errors
  /\ UNCHANGED <<report, color, rows, thrown, netSecurity, dir, cyclic, clock, files>>

\* The call of outputReport, up to the await or, when JSON.stringify throws,
\* through the catch to its end.
OutputReportCall ==
  /\ pc = "ready"
  /\ LET d == IF dir[1] # "string" THEN Cwd ELSE dir[2]
         file == PathJoin(d, <<"n", "c", "m", "-", "s", "c", "o", "r", "e", "-", "r", "e", "p", "o", "r", "t", "-">> \o ToStr(clock) \o <<".", "j", "s", "o", "n">>)
     IN IF cyclic
          THEN /\ errors' = HandleError(errors, "Tools::UnableToFormatOutput")
               /\ promise' = "resolved"
               /\ pc' = "done"
               /\ UNCHANGED <<reportFile, writePromise>>
          ELSE /\ reportFile' = file
               /\ writePromise' = "pending"
               /\ promise' = "pending"
               /\ pc' = "awaiting"
               /\ UNCHANGED errors
  /\ UNCHANGED <<report, color, out, rows, thrown, netSecurity, dir, cyclic, clock,
                 files>>

\* The file system completes the write: the file holds the JSON text.
WriteFileDone ==
  /\ pc = "awaiting"
  /\ writePromise = "pending"
  /\ files' = {f \in files : f.path # reportFile}
                \cup {[path |-> reportFile, data |-> JsonStringify(report)]}
  /\ writePromise' = "fulfilled"
  /\ UNCHANGED <<report, color, pc, out, rows, thrown, netSecurity, dir, cyclic,
                 clock, reportFile, errors, promise>>

\* The file system fails the write: no file, or a file cut short, is left.
WriteFileFail ==
  /\ pc = "awaiting"
  /\ writePromise = "pending"
  /\ \/ UNCHANGED files
     \/ files' = {f \in files : f.path # reportFile}
                   \cup {[path |-> reportFile, data |-> <<>>]}
  /\ writePromise' = "rejected"
  /\ UNCHANGED <<report, color, pc, out, rows, thrown, netSecurity, dir, cyclic,
                 clock, reportFile, errors, promise>>

\* outputReport resumes after its await: the confirmation, or the catch.
OutputReportResume ==
  /\ pc = "awaiting"
  /\ writePromise \in {"fulfilled", "rejected"}
  /\ IF writePromise = "fulfilled"
       THEN /\ out' = Append(out, SuccessLine(reportFile))
            /\ UNCHANGED errors
       ELSE /\ errors' = HandleError(errors, "Tools::UnableToFormatOutput")
            /\ UNCHANGED out
  /\ promise' = "resolved"
  /\ pc' = "done"
  /\ UNCHANGED <<report, color, rows, thrown, netSecurity, dir, cyclic, clock,
                 reportFile, files, writePromise>>

NextOutput ==
  \/ OutputReportCall
  \/ WriteFileDone
  \/ WriteFileFail
  \/ OutputReportResume

OutPackages ==
  {VulnPkg(id, failures) :
     id \in VulnIdentities,
     failures \in {<<>>, <<[group |-> "security", severity |-> "HIGH"]>>}}

DirArguments == {<<"undefined">>, <<"string", <<"/", "t">>>>, <<"string", <<"/", "t", "/">>>>}

InitOutput ==
  /\ report \in SeqUpTo(OutPackages, MaxOutReport)
  /\ dir \in DirArguments
  /\ cyclic \in BOOLEAN
  /\ clock \in 1..MaxClock
  /\ color \in BOOLEAN
  /\ pc = "ready"
  /\ out = <<>>
  /\ rows = <<>>
  /\ thrown = "none"
  /\ netSecurity = <<>>
  /\ reportFile = <<>>
  /\ files = {}
  /\ errors = <<>>
  /\ writePromise = "none"
  /\ promise = "none"

\* The write, once started, completes or fails, and the continuation of the
\* await then runs: the event loop starves neither.
SpecOutput == InitOutput /\ [][NextOutput]_vars /\ WF_vars(NextOutput)

\* outputReport is in its success outcome: the confirmation is written and
\* names the file, which holds the JSON text, and no error is reported.
SuccessOutcome ==
  /\ Len(out) = 1
  /\ Contains(Visible(out[1]), reportFile)
  /\ writePromise = "fulfilled"
  /\ [path |-> reportFile, data |-> JsonStringify(report)] \in files
  /\ errors = <<>>

\* outputReport is in its failure outcome: serialization or the write failed,
\* the error is reported once and no confirmation is written.
FailureOutcome ==
  /\ out = <<>>
  /\ errors = <<"Tools::UnableToFormatOutput">>
  /\ cyclic \/ writePromise = "rejected"

====
